---- MODULE Spec2Model ----
(***************************************************************************)
(* Bidirectional cursors ("paginators") of ui-composer-data-structures:    *)
(* the source cursors Once, VecPag and VecPagMut, the adapters Map,        *)
(* Enumerate and Chain, and the callers that drive them.                   *)
(*                                                                         *)
(* A cursor is a record whose "type" field names the Rust struct and whose *)
(* other fields are the struct's fields.  A borrowed Vec is held by value  *)
(* in the "items" field.  Option<T> is None / Some(v).                     *)
(***************************************************************************)
EXTENDS Integers, Sequences, FiniteSets, TLC

\* ------------------------------------------------------------------ bounds
MaxVal == 1        \* element values are 0..MaxVal
MaxLen == 1        \* longest backing Vec of the free and the building caller
MaxCalls == 6      \* calls made by the free caller
MaxTripLen == 3    \* longest backing Vec of a traversed source cursor
MaxChainLen == 2   \* longest backing Vec under a traversed Chain
MaxBuildOps == 3   \* constructor calls and cursor calls of the building caller
MaxMutLen == 2     \* longest backing Vec of the writing caller
NumReaders == 2    \* read cursors the sharing caller holds over one Vec
MaxReaderCalls == 4  \* calls made by the sharing caller
MaxMutOps == 5     \* calls and writes made by the writing caller
MaxWrites == 2     \* writes made by the writing caller
ObsDepth == 4      \* length of the call sequences that compare two cursors

Values == 0..MaxVal

RECURSIVE SeqsUpTo(_)
SeqsUpTo(n) ==
    IF n = 0 THEN {<<>>}
    ELSE LET S == SeqsUpTo(n - 1)
         IN  S \cup {Append(s, v) : s \in {t \in S : Len(t) = n - 1}, v \in Values}

Vecs == SeqsUpTo(MaxLen)
TripVecs == SeqsUpTo(MaxTripLen)
ChainVecs == SeqsUpTo(MaxChainLen)
MutVecs == SeqsUpTo(MaxMutLen)
ReaderVecs == SeqsUpTo(MaxMutLen)

\* ------------------------------------------------------------- Option, refs
None == [some |-> FALSE]
Some(v) == [some |-> TRUE, val |-> v]

\* A mutable reference handed out by a cursor: the path of fields from the
\* outermost cursor down to the VecPagMut, and the position in its Vec.
NoRef == [live |-> FALSE, path |-> <<>>, at |-> 0]
RefTo(p, i) == [live |-> TRUE, path |-> p, at |-> i]
Under(field, ref) ==
    IF ref.live THEN RefTo(<<field>> \o ref.path, ref.at) ELSE NoRef

\* What one call gives back: the cursor after the call, the returned Option,
\* the reference the item carries, the calls made on wrapped cursors and on
\* the Map function, and whether a usize subtraction went below zero.
Ret(c, r, ref, calls, uf) ==
    [cur |-> c, ret |-> r, ref |-> ref, calls |-> calls, underflow |-> uf]
Call(who, what, r) == [by |-> who, op |-> what, some |-> r.some]

\* ------------------------------------------------------------- primitives
\* Vec::get on a usize index.  The index -1 stands for usize::MAX, the value
\* a wrapping 0 - 1 produces; it is beyond every Vec.
Vec_get(v, i) == IF i >= 0 /\ i < Len(v) THEN Some(v[i + 1]) ELSE None

\* The functions given to map(): a tagging function (to_string in the tests)
\* and a constant one.
MapFns == {"tag", "zero"}
F(f, x) == IF f = "tag" THEN <<"f", x>> ELSE 0

\* B::Item: Into<A::Item>; for the items of the provided cursors the only
\* conversion is the reflexive one.
Into(x) == x

\* The Paginator trait's two methods, defined below for each cursor type.
RECURSIVE Paginator_next(_), Paginator_previous(_)

\* ------------------------------------------------------------ constructors
once(element) == [type |-> "Once", position |-> 0, element |-> element]
\* paginate that starts at the end of the Vec
paginate_atEnd(v) == [type |-> "VecPag", items |-> v, index |-> Len(v)]

paginate(v) == [type |-> "VecPag", items |-> v, index |-> 0]
paginate_mut(v) == [type |-> "VecPagMut", items |-> v, index |-> 0]
\* map that advances the cursor it wraps
map_eager(c, f) == [type |-> "Map", inner |-> Paginator_next(c).cur, f |-> f]

map(c, f) == [type |-> "Map", inner |-> c, f |-> f]
enumerate(c) == [type |-> "Enumerate", index |-> 0, inner |-> c]
chain(a, b) ==
    [type |-> "Chain", disjunctor |-> "First", inner_a |-> a, inner_b |-> b]

RECURSIVE ItemType(_)
ItemType(c) ==
    CASE c.type \in {"Once", "VecPag"} -> <<"&A">>
      [] c.type = "VecPagMut" -> <<"&mut A">>
      [] c.type = "Map" -> <<"Output", c.f>>
      [] c.type = "Enumerate" -> <<"usize">> \o ItemType(c.inner)
      [] c.type = "Chain" -> ItemType(c.inner_a)

\* ------------------------------------------------------------------- Once
\* next that does not move the position
Once_next_noMove(c) ==
    IF c.position = 0
    THEN Ret(c, Some(c.element), NoRef, <<>>, FALSE)
    ELSE Ret(c, None, NoRef, <<>>, FALSE)

Once_next(c) ==
    IF c.position = 0
    THEN Ret([c EXCEPT !.position = c.position + 1], Some(c.element), NoRef, <<>>, FALSE)
    ELSE Ret(c, None, NoRef, <<>>, FALSE)

\* previous with the condition of next
Once_previous_atZero(c) ==
    IF c.position = 0
    THEN Ret([c EXCEPT !.position = c.position - 1], Some(c.element), NoRef, <<>>, FALSE)
    ELSE Ret(c, None, NoRef, <<>>, FALSE)

Once_previous(c) ==
    IF c.position = 1
    THEN Ret([c EXCEPT !.position = c.position - 1], Some(c.element), NoRef, <<>>, FALSE)
    ELSE Ret(c, None, NoRef, <<>>, FALSE)

\* ----------------------------------------------------------------- VecPag
\* next that moves the index also when there is no element
VecPag_next_alwaysMoves(c) ==
    Ret([c EXCEPT !.index = c.index + 1], Vec_get(c.items, c.index), NoRef, <<>>, FALSE)

\* next that yields the last element without moving past it
VecPag_next_stuckAtLast(c) ==
    LET got == Vec_get(c.items, c.index)
    IN  IF got.some
        THEN Ret([c EXCEPT !.index = IF c.index + 1 = Len(c.items)
                                     THEN c.index ELSE c.index + 1],
                 got, NoRef, <<>>, FALSE)
        ELSE Ret(c, None, NoRef, <<>>, FALSE)

VecPag_next(c) ==
    LET got == Vec_get(c.items, c.index)
    IN  IF got.some
        THEN Ret([c EXCEPT !.index = c.index + 1], got, NoRef, <<>>, FALSE)
        ELSE Ret(c, None, NoRef, <<>>, FALSE)

\* previous without the check for index 0
VecPag_previous_noGuard(c) ==
    LET got == Vec_get(c.items, c.index - 1)
    IN  IF got.some
        THEN Ret([c EXCEPT !.index = c.index - 1], got, NoRef, <<>>, FALSE)
        ELSE Ret(c, None, NoRef, <<>>, c.index = 0)

\* previous that reads self.index instead of self.index - 1
VecPag_previous_sameIndex(c) ==
    IF c.index = 0 THEN Ret(c, None, NoRef, <<>>, FALSE)
    ELSE LET got == Vec_get(c.items, c.index)
         IN  IF got.some
             THEN Ret([c EXCEPT !.index = c.index - 1], got, NoRef, <<>>, FALSE)
             ELSE Ret(c, None, NoRef, <<>>, FALSE)

VecPag_previous(c) ==
    IF c.index = 0 THEN Ret(c, None, NoRef, <<>>, FALSE)
    ELSE LET got == Vec_get(c.items, c.index - 1)
         IN  IF got.some
             THEN Ret([c EXCEPT !.index = c.index - 1], got, NoRef, <<>>, FALSE)
             ELSE Ret(c, None, NoRef, <<>>, FALSE)

\* -------------------------------------------------------------- VecPagMut
\* next that moves the index before it reads the element
VecPagMut_next_movesFirst(c) ==
    LET got == Vec_get(c.items, c.index + 1)
    IN  IF got.some
        THEN Ret([c EXCEPT !.index = c.index + 1], got,
                 RefTo(<<>>, c.index + 1), <<>>, FALSE)
        ELSE Ret(c, None, NoRef, <<>>, FALSE)

VecPagMut_next(c) ==
    LET got == Vec_get(c.items, c.index)
    IN  IF got.some
        THEN Ret([c EXCEPT !.index = c.index + 1], got, RefTo(<<>>, c.index), <<>>, FALSE)
        ELSE Ret(c, None, NoRef, <<>>, FALSE)

\* previous that reads self.index instead of self.index - 1
VecPagMut_previous_sameIndex(c) ==
    IF c.index = 0 THEN Ret(c, None, NoRef, <<>>, FALSE)
    ELSE LET got == Vec_get(c.items, c.index)
         IN  IF got.some
             THEN Ret([c EXCEPT !.index = c.index - 1], got,
                      RefTo(<<>>, c.index), <<>>, FALSE)
             ELSE Ret(c, None, NoRef, <<>>, FALSE)

VecPagMut_previous(c) ==
    IF c.index = 0 THEN Ret(c, None, NoRef, <<>>, FALSE)
    ELSE LET got == Vec_get(c.items, c.index - 1)
         IN  IF got.some
             THEN Ret([c EXCEPT !.index = c.index - 1], got,
                      RefTo(<<>>, c.index - 1), <<>>, FALSE)
             ELSE Ret(c, None, NoRef, <<>>, FALSE)

\* -------------------------------------------------------------------- Map
\* next that advances the wrapped cursor twice and maps the second item
Map_next_callsTwice(c) ==
    LET r1 == Paginator_next(c.inner)
        r == Paginator_next(r1.cur)
    IN  Ret([c EXCEPT !.inner = r.cur],
            IF r.ret.some THEN Some(F(c.f, r.ret.val)) ELSE None,
            NoRef,
            <<Call("Map", "inner.next", r1.ret)>> \o r1.calls
                \o <<Call("Map", "inner.next", r.ret)>> \o r.calls
                \o (IF r.ret.some THEN <<Call("Map", "f", r.ret)>> ELSE <<>>),
            r.underflow)

Map_next(c) ==
    LET r == Paginator_next(c.inner)
    IN  Ret([c EXCEPT !.inner = r.cur],
            IF r.ret.some THEN Some(F(c.f, r.ret.val)) ELSE None,
            NoRef,
            <<Call("Map", "inner.next", r.ret)>> \o r.calls
                \o (IF r.ret.some THEN <<Call("Map", "f", r.ret)>> ELSE <<>>),
            r.underflow)

Map_previous(c) ==
    LET r == Paginator_previous(c.inner)
    IN  Ret([c EXCEPT !.inner = r.cur],
            IF r.ret.some THEN Some(F(c.f, r.ret.val)) ELSE None,
            NoRef,
            <<Call("Map", "inner.previous", r.ret)>> \o r.calls
                \o (IF r.ret.some THEN <<Call("Map", "f", r.ret)>> ELSE <<>>),
            r.underflow)

\* -------------------------------------------------------------- Enumerate
\* next that yields the counter after the increment
Enumerate_next_newIndex(c) ==
    LET r == Paginator_next(c.inner)
    IN  IF r.ret.some
        THEN Ret([c EXCEPT !.inner = r.cur, !.index = c.index + 1],
                 Some(<<c.index + 1, r.ret.val>>), Under("inner", r.ref),
                 <<Call("Enumerate", "inner.next", r.ret)>> \o r.calls, r.underflow)
        ELSE Ret([c EXCEPT !.inner = r.cur], None, NoRef,
                 <<Call("Enumerate", "inner.next", r.ret)>> \o r.calls, r.underflow)

Enumerate_next(c) ==
    LET r == Paginator_next(c.inner)
        old_index == c.index
    IN  IF r.ret.some
        THEN Ret([c EXCEPT !.inner = r.cur, !.index = c.index + 1],
                 Some(<<old_index, r.ret.val>>), Under("inner", r.ref),
                 <<Call("Enumerate", "inner.next", r.ret)>> \o r.calls, r.underflow)
        ELSE Ret([c EXCEPT !.inner = r.cur], None, NoRef,
                 <<Call("Enumerate", "inner.next", r.ret)>> \o r.calls, r.underflow)

\* previous that leaves the counter where it was
Enumerate_previous_keepsIndex(c) ==
    LET r == Paginator_previous(c.inner)
        old_index == c.index
    IN  IF r.ret.some
        THEN Ret([c EXCEPT !.inner = r.cur],
                 Some(<<old_index, r.ret.val>>), Under("inner", r.ref),
                 <<Call("Enumerate", "inner.previous", r.ret)>> \o r.calls,
                 r.underflow)
        ELSE Ret([c EXCEPT !.inner = r.cur], None, NoRef,
                 <<Call("Enumerate", "inner.previous", r.ret)>> \o r.calls, r.underflow)

\* self.index -= 1 on a usize: at 0 the subtraction underflows (a panic with
\* overflow checks, usize::MAX without them, written -1 here).
Enumerate_previous(c) ==
    LET r == Paginator_previous(c.inner)
        old_index == c.index
    IN  IF r.ret.some
        THEN Ret([c EXCEPT !.inner = r.cur, !.index = c.index - 1],
                 Some(<<old_index, r.ret.val>>), Under("inner", r.ref),
                 <<Call("Enumerate", "inner.previous", r.ret)>> \o r.calls,
                 r.underflow \/ c.index = 0)
        ELSE Ret([c EXCEPT !.inner = r.cur], None, NoRef,
                 <<Call("Enumerate", "inner.previous", r.ret)>> \o r.calls, r.underflow)

\* ------------------------------------------------------------------ Chain
\* next that goes back to First when inner_b has no more elements
Chain_next_resetsFirst(c) ==
    LET ra == Paginator_next(c.inner_a)
        ca == [c EXCEPT !.inner_a = ra.cur]
        ea == <<Call("Chain", "inner_a.next", ra.ret)>> \o ra.calls
        c2 == IF c.disjunctor = "First"
              THEN [ca EXCEPT !.disjunctor = "Second"] ELSE c
        e2 == IF c.disjunctor = "First" THEN ea ELSE <<>>
        rb == Paginator_next(c2.inner_b)
        cb == [c2 EXCEPT !.inner_b = rb.cur]
        eb == e2 \o <<Call("Chain", "inner_b.next", rb.ret)>> \o rb.calls
    IN  IF c.disjunctor = "First" /\ ra.ret.some
        THEN Ret(ca, ra.ret, Under("inner_a", ra.ref), ea, FALSE)
        ELSE IF rb.ret.some
             THEN Ret([cb EXCEPT !.disjunctor = "Second"], Some(Into(rb.ret.val)),
                      Under("inner_b", rb.ref), eb, FALSE)
             ELSE Ret([cb EXCEPT !.disjunctor = "First"], None, NoRef, eb, FALSE)

\* next that moves on to Second as soon as inner_a has yielded an element
Chain_next_earlySecond(c) ==
    LET ra == Paginator_next(c.inner_a)
        ca == [c EXCEPT !.inner_a = ra.cur, !.disjunctor = "Second"]
        ea == <<Call("Chain", "inner_a.next", ra.ret)>> \o ra.calls
        c2 == IF c.disjunctor = "First" THEN ca ELSE c
        e2 == IF c.disjunctor = "First" THEN ea ELSE <<>>
        rb == Paginator_next(c2.inner_b)
        cb == [c2 EXCEPT !.inner_b = rb.cur]
        eb == e2 \o <<Call("Chain", "inner_b.next", rb.ret)>> \o rb.calls
    IN  IF c.disjunctor = "First" /\ ra.ret.some
        THEN Ret(ca, ra.ret, Under("inner_a", ra.ref), ea, FALSE)
        ELSE IF rb.ret.some
             THEN Ret(cb, Some(Into(rb.ret.val)), Under("inner_b", rb.ref), eb, FALSE)
             ELSE Ret(cb, None, NoRef, eb, FALSE)

\* next that returns None in the call in which inner_a runs out
Chain_next_noFallThrough(c) ==
    LET ra == Paginator_next(c.inner_a)
        ca == [c EXCEPT !.inner_a = ra.cur]
        ea == <<Call("Chain", "inner_a.next", ra.ret)>> \o ra.calls
        rb == Paginator_next(c.inner_b)
        cb == [c EXCEPT !.inner_b = rb.cur]
        eb == <<Call("Chain", "inner_b.next", rb.ret)>> \o rb.calls
    IN  IF c.disjunctor = "First"
        THEN IF ra.ret.some
             THEN Ret(ca, ra.ret, Under("inner_a", ra.ref), ea, FALSE)
             ELSE Ret([ca EXCEPT !.disjunctor = "Second"], None, NoRef, ea, FALSE)
        ELSE Ret(cb, IF rb.ret.some THEN Some(Into(rb.ret.val)) ELSE None,
                 Under("inner_b", rb.ref), eb, FALSE)

Chain_next(c) ==
    LET ra == Paginator_next(c.inner_a)
        ca == [c EXCEPT !.inner_a = ra.cur]
        ea == <<Call("Chain", "inner_a.next", ra.ret)>> \o ra.calls
        \* the cursor when the second `if let` is reached
        c2 == IF c.disjunctor = "First"
              THEN [ca EXCEPT !.disjunctor = "Second"] ELSE c
        e2 == IF c.disjunctor = "First" THEN ea ELSE <<>>
        u2 == IF c.disjunctor = "First" THEN ra.underflow ELSE FALSE
        rb == Paginator_next(c2.inner_b)
        cb == [c2 EXCEPT !.inner_b = rb.cur]
        eb == e2 \o <<Call("Chain", "inner_b.next", rb.ret)>> \o rb.calls
    IN  IF c.disjunctor = "First" /\ ra.ret.some
        THEN Ret(ca, ra.ret, Under("inner_a", ra.ref), ea, ra.underflow)
        ELSE IF rb.ret.some
             THEN Ret([cb EXCEPT !.disjunctor = "Second"], Some(Into(rb.ret.val)),
                      Under("inner_b", rb.ref), eb, u2 \/ rb.underflow)
             ELSE Ret(cb, None, NoRef, eb, u2 \/ rb.underflow)

\* previous that goes back to First as soon as inner_b has yielded an element
Chain_previous_earlyFirst(c) ==
    LET rb == Paginator_previous(c.inner_b)
        cb == [c EXCEPT !.inner_b = rb.cur, !.disjunctor = "First"]
        eb == <<Call("Chain", "inner_b.previous", rb.ret)>> \o rb.calls
        c2 == IF c.disjunctor = "Second" THEN cb ELSE c
        e2 == IF c.disjunctor = "Second" THEN eb ELSE <<>>
        ra == Paginator_previous(c2.inner_a)
        ca == [c2 EXCEPT !.inner_a = ra.cur]
        ea == e2 \o <<Call("Chain", "inner_a.previous", ra.ret)>> \o ra.calls
    IN  IF c.disjunctor = "Second" /\ rb.ret.some
        THEN Ret(cb, Some(Into(rb.ret.val)), Under("inner_b", rb.ref), eb, FALSE)
        ELSE IF ra.ret.some
             THEN Ret(ca, ra.ret, Under("inner_a", ra.ref), ea, FALSE)
             ELSE Ret(ca, None, NoRef, ea, FALSE)

\* previous that does not fall through to inner_a when inner_b is at its start
Chain_previous_noFallThrough(c) ==
    LET rb == Paginator_previous(c.inner_b)
        cb == [c EXCEPT !.inner_b = rb.cur]
        eb == <<Call("Chain", "inner_b.previous", rb.ret)>> \o rb.calls
        ra == Paginator_previous(c.inner_a)
        ca == [c EXCEPT !.inner_a = ra.cur]
        ea == <<Call("Chain", "inner_a.previous", ra.ret)>> \o ra.calls
    IN  IF c.disjunctor = "Second"
        THEN IF rb.ret.some
             THEN Ret(cb, Some(Into(rb.ret.val)), Under("inner_b", rb.ref), eb, rb.underflow)
             ELSE Ret([cb EXCEPT !.disjunctor = "First"], None, NoRef, eb, rb.underflow)
        ELSE Ret(ca, ra.ret, Under("inner_a", ra.ref), ea, ra.underflow)

Chain_previous(c) ==
    LET rb == Paginator_previous(c.inner_b)
        cb == [c EXCEPT !.inner_b = rb.cur]
        eb == <<Call("Chain", "inner_b.previous", rb.ret)>> \o rb.calls
        \* the cursor when the second `if let` is reached
        c2 == IF c.disjunctor = "Second"
              THEN [cb EXCEPT !.disjunctor = "First"] ELSE c
        e2 == IF c.disjunctor = "Second" THEN eb ELSE <<>>
        u2 == IF c.disjunctor = "Second" THEN rb.underflow ELSE FALSE
        ra == Paginator_previous(c2.inner_a)
        ca == [c2 EXCEPT !.inner_a = ra.cur]
        ea == e2 \o <<Call("Chain", "inner_a.previous", ra.ret)>> \o ra.calls
    IN  IF c.disjunctor = "Second" /\ rb.ret.some
        THEN Ret(cb, Some(Into(rb.ret.val)), Under("inner_b", rb.ref), eb, rb.underflow)
        ELSE IF ra.ret.some
             THEN Ret(ca, ra.ret, Under("inner_a", ra.ref), ea, u2 \/ ra.underflow)
             ELSE Ret(ca, None, NoRef, ea, u2 \/ ra.underflow)

\* ------------------------------------------------- the Paginator trait
Paginator_next(c) ==
    CASE c.type = "Once" -> Once_next(c)
      [] c.type = "VecPag" -> VecPag_next(c)
      [] c.type = "VecPagMut" -> VecPagMut_next(c)
      [] c.type = "Map" -> Map_next(c)
      [] c.type = "Enumerate" -> Enumerate_next(c)
      [] c.type = "Chain" -> Chain_next(c)

Paginator_previous(c) ==
    CASE c.type = "Once" -> Once_previous(c)
      [] c.type = "VecPag" -> VecPag_previous(c)
      [] c.type = "VecPagMut" -> VecPagMut_previous(c)
      [] c.type = "Map" -> Map_previous(c)
      [] c.type = "Enumerate" -> Enumerate_previous(c)
      [] c.type = "Chain" -> Chain_previous(c)

\* `**f = v` through the reference a VecPagMut handed out.
RECURSIVE WriteAt(_, _, _, _)
WriteAt(c, path, i, v) ==
    IF path = <<>> THEN [c EXCEPT !.items[i + 1] = v]
    ELSE CASE Head(path) = "inner" ->
                [c EXCEPT !.inner = WriteAt(c.inner, Tail(path), i, v)]
           [] Head(path) = "inner_a" ->
                [c EXCEPT !.inner_a = WriteAt(c.inner_a, Tail(path), i, v)]
           [] Head(path) = "inner_b" ->
                [c EXCEPT !.inner_b = WriteAt(c.inner_b, Tail(path), i, v)]

\* ------------------------------------------------- families of cursors
SourcesOver(VS) ==
    {once(x) : x \in Values} \cup {paginate(v) : v \in VS}
        \cup {paginate_mut(v) : v \in VS}
Maps(S) == {map(c, f) : c \in S, f \in MapFns}
Enumerates(S) == {enumerate(c) : c \in S}
\* chain() needs B::Item: Into<A::Item>
Chains(S) ==
    {chain(p[1], p[2]) : p \in {q \in S \X S : ItemType(q[2]) = ItemType(q[1])}}
AdaptersOver(S) == Maps(S) \cup Enumerates(S) \cup Chains(S)

Sources == SourcesOver(Vecs)
ReadSources == {c \in Sources : c.type # "VecPagMut"}
FreshCursors ==
    Sources \cup AdaptersOver(Sources)
        \cup Enumerates(Chains(ReadSources)) \cup Maps(Enumerates(ReadSources))
        \cup Chains(Enumerates(ReadSources))

TripSources == SourcesOver(TripVecs)
TripCursors ==
    TripSources \cup Maps(TripSources) \cup Enumerates(TripSources)
        \cup Chains(SourcesOver(ChainVecs))

VecCursors == {paginate(v) : v \in TripVecs} \cup {paginate_mut(v) : v \in TripVecs}

\* enumerate() over fresh source cursors and over fresh chains of them.
EnumCursors == Enumerates(TripSources) \cup Enumerates(Chains(ReadSources))

\* map() over fresh source cursors and over fresh Enumerates of them.
MapCursors == Maps(TripSources) \cup Maps(Enumerates(ReadSources))

\* Cursors over finite collections, and chains of two of them.
ExhaustCursors == VecCursors \cup Chains({paginate(v) : v \in ChainVecs})

\* Source cursors to chain: the shared-reference ones over longer Vecs, the
\* exclusive-reference ones over the short ones.
ChainSources ==
    {c \in SourcesOver(ChainVecs) : c.type # "VecPagMut"}
        \cup {paginate_mut(v) : v \in Vecs}
ChainCursors == ChainSources \cup Chains(ChainSources)

MutSources == {paginate_mut(v) : v \in MutVecs}
MutCursors == MutSources \cup Enumerates(MutSources)

NoCursor == [type |-> "none"]

\* ------------------------------------------------------------------ state
VARIABLES
    cur,        \* the cursor the caller holds
    fresh,      \* that cursor as it was constructed
    hist,       \* the caller's calls so far, each with what it returned
    held,       \* the &mut reference the last call handed out, if any
    phase,      \* the caller: "free", "mut", "fwd"/"bwd"/"done", "build",
                \* "readers" or "pre"
    panicked    \* a usize underflow panicked (overflow checks on)

vars == <<cur, fresh, hist, held, phase, panicked>>

Last(s) == s[Len(s)]
Limit ==
    CASE phase = "build" -> MaxBuildOps
      [] phase = "mut" -> MaxMutOps
      [] phase = "readers" -> MaxReaderCalls
      [] OTHER -> MaxCalls
Writes(h) == Cardinality({i \in DOMAIN h : h[i].op = "write"})

\* ---------------------------------------------------------------- calls
\* One call of next or previous on the cursor.
DoCall(op) ==
    LET r == IF op = "next" THEN Paginator_next(cur) ELSE Paginator_previous(cur)
    IN  /\ cur' = r.cur
        /\ hist' = Append(hist, [op |-> op, ret |-> r.ret, ref |-> r.ref,
                                 calls |-> r.calls, before |-> cur, after |-> r.cur])
        /\ held' = r.ref
        /\ panicked' \in (IF r.underflow THEN BOOLEAN ELSE {FALSE})
        /\ fresh' = fresh

CallNext ==
    /\ phase \in {"free", "mut", "build"}
    /\ cur # NoCursor
    /\ ~panicked
    /\ Len(hist) < Limit
    /\ DoCall("next")
    /\ phase' = phase

CallPrevious ==
    /\ phase \in {"free", "mut", "build"}
    /\ cur # NoCursor
    /\ ~panicked
    /\ Len(hist) < Limit
    /\ DoCall("previous")
    /\ phase' = phase

\* The caller assigns through the reference it was handed.
WriteThrough ==
    /\ phase = "mut"
    /\ ~panicked
    /\ held.live
    /\ Len(hist) < Limit
    /\ Writes(hist) < MaxWrites
    /\ \E v \in Values :
         /\ cur' = WriteAt(cur, held.path, held.at, v)
         /\ hist' = Append(hist, [op |-> "write", ret |-> Some(v), ref |-> held,
                                  calls |-> <<>>, before |-> cur, after |-> cur'])
    /\ UNCHANGED <<fresh, held, phase, panicked>>

\* The tests' traversal: next until None, then previous until None.
Forward ==
    /\ phase = "fwd"
    /\ ~panicked
    /\ DoCall("next")
    /\ phase' = IF Last(hist').ret.some THEN "fwd" ELSE "bwd"

Backward ==
    /\ phase = "bwd"
    /\ ~panicked
    /\ DoCall("previous")
    /\ phase' = IF Last(hist').ret.some THEN "bwd" ELSE "done"

\* ------------------------------------------------- several read cursors
\* A Vec and the VecPags that borrow it: paginate(&self) takes a shared
\* borrow, so the caller may hold any number of them.
Readers(v) ==
    [type |-> "Readers", items |-> v, pags |-> [k \in 1..NumReaders |-> paginate(v)]]

\* a call that moves the position of every cursor over the Vec
CallOn_sharedPosition(k, op) ==
    LET r == IF op = "next" THEN Paginator_next(cur.pags[k])
             ELSE Paginator_previous(cur.pags[k])
    IN  /\ cur' = [cur EXCEPT !.pags = [m \in DOMAIN cur.pags |-> r.cur]]
        /\ hist' = Append(hist, [op |-> op, who |-> k, ret |-> r.ret,
                                 before |-> cur, after |-> cur'])
        /\ UNCHANGED <<fresh, held, phase, panicked>>

\* One call of next or previous on the k-th cursor.
CallOn(k, op) ==
    LET r == IF op = "next" THEN Paginator_next(cur.pags[k])
             ELSE Paginator_previous(cur.pags[k])
    IN  /\ cur' = [cur EXCEPT !.pags[k] = r.cur]
        /\ hist' = Append(hist, [op |-> op, who |-> k, ret |-> r.ret,
                                 before |-> cur, after |-> cur'])
        /\ UNCHANGED <<fresh, held, phase, panicked>>

ReaderNext ==
    /\ phase = "readers"
    /\ Len(hist) < Limit
    /\ \E k \in DOMAIN cur.pags : CallOn(k, "next")

ReaderPrevious ==
    /\ phase = "readers"
    /\ Len(hist) < Limit
    /\ \E k \in DOMAIN cur.pags : CallOn(k, "previous")

\* ------------------------------------------------------------ construction
Built(op, c) ==
    /\ phase = "build"
    /\ ~panicked
    /\ Len(hist) < Limit
    /\ cur' = c
    /\ fresh' = c
    /\ hist' = Append(hist, [op |-> op, ret |-> None, ref |-> NoRef,
                             calls |-> <<>>, before |-> cur, after |-> c])
    /\ held' = NoRef
    /\ UNCHANGED <<phase, panicked>>

NewOnce == cur = NoCursor /\ \E x \in Values : Built("once", once(x))
NewPaginate == cur = NoCursor /\ \E v \in Vecs : Built("paginate", paginate(v))
NewPaginateMut == cur = NoCursor /\ \E v \in Vecs : Built("paginate_mut", paginate_mut(v))
WrapMap == cur # NoCursor /\ \E f \in MapFns : Built("map", map(cur, f))
WrapEnumerate == cur # NoCursor /\ Built("enumerate", enumerate(cur))
WrapChain ==
    /\ cur # NoCursor
    /\ \E b \in Sources : ItemType(b) = ItemType(cur) /\ Built("chain", chain(cur, b))

\* ------------------------------------------- wrapping a cursor in use
\* The caller moves a source cursor before it wraps it.
MoveFirst ==
    /\ phase = "pre"
    /\ Len(hist) < Limit
    /\ \E op \in {"next", "previous"} : DoCall(op)
    /\ phase' = phase

\* enumerate() takes the cursor as it is and starts its counter at 0.
EnumerateInUse ==
    /\ phase = "pre"
    /\ Len(hist) < Limit
    /\ cur' = enumerate(cur)
    /\ fresh' = cur'
    /\ hist' = Append(hist, [op |-> "enumerate", ret |-> None, ref |-> NoRef,
                             calls |-> <<>>, before |-> cur, after |-> cur'])
    /\ held' = NoRef
    /\ phase' = "free"
    /\ panicked' = panicked

\* --------------------------------------------------------- specifications
Start(c, ph) ==
    /\ cur = c
    /\ fresh = c
    /\ hist = <<>>
    /\ held = NoRef
    /\ phase = ph
    /\ panicked = FALSE

\* A caller that makes any calls on a freshly constructed cursor.
Init == \E c \in FreshCursors : Start(c, "free")
Next == CallNext \/ CallPrevious
Spec == Init /\ [][Next]_vars

\* A caller that also writes through the references a VecPagMut hands out.
InitMut == \E c \in MutCursors : Start(c, "mut")
NextMut == CallNext \/ CallPrevious \/ WriteThrough
SpecMut == InitMut /\ [][NextMut]_vars

\* The tests' caller: a full pass forward, then a full pass backward.
InitTrip == \E c \in TripCursors : Start(c, "fwd")
NextTrip == Forward \/ Backward
SpecTrip == InitTrip /\ [][NextTrip]_vars

\* A caller of one Enumerate, in any order of next and previous.
InitEnum == \E c \in EnumCursors : Start(c, "free")
NextEnum == CallNext \/ CallPrevious
SpecEnum == InitEnum /\ [][NextEnum]_vars

\* A caller of one Map, in any order of next and previous.
InitMap == \E c \in MapCursors : Start(c, "free")
NextMap == CallNext \/ CallPrevious
SpecMap == InitMap /\ [][NextMap]_vars

\* A caller that may move a source cursor, then wraps it in an Enumerate and
\* calls that in any order.
InitWrap == \E c \in ChainSources : Start(c, "pre")
NextWrap == MoveFirst \/ EnumerateInUse \/ CallNext \/ CallPrevious
SpecWrap == InitWrap /\ [][NextWrap]_vars

\* A caller of a collection cursor or of a Chain of two, in any order.
InitExhaust == \E c \in ExhaustCursors : Start(c, "free")
NextExhaust == CallNext \/ CallPrevious
SpecExhaust == InitExhaust /\ [][NextExhaust]_vars

\* A caller that constructs cursors and adapters among its calls.
InitBuild == Start(NoCursor, "build")
NextBuild ==
    \/ NewOnce \/ NewPaginate \/ NewPaginateMut
    \/ WrapMap \/ WrapEnumerate \/ WrapChain
    \/ CallNext \/ CallPrevious
SpecBuild == InitBuild /\ [][NextBuild]_vars

\* A caller that makes any calls on a fresh collection cursor.
InitVec == \E c \in VecCursors : Start(c, "free")
NextVec == CallNext \/ CallPrevious
SpecVec == InitVec /\ [][NextVec]_vars

\* A caller that makes any calls on a fresh Chain of two source cursors, or
\* on a fresh source cursor.
InitChain == \E c \in ChainCursors : Start(c, "free")
NextChain == CallNext \/ CallPrevious
SpecChain == InitChain /\ [][NextChain]_vars

\* A caller that holds several read cursors over one Vec and calls them in
\* any order.
InitReaders == \E v \in ReaderVecs : Start(Readers(v), "readers")
NextReaders == ReaderNext \/ ReaderPrevious
SpecReaders == InitReaders /\ [][NextReaders]_vars

\* ------------------------------------------------- reading the history
IsCall(e) == e.op \in {"next", "previous"}
Rets(h) == [i \in DOMAIN h |-> h[i].ret]
Ops(h) == [i \in DOMAIN h |-> h[i].op]
Rev(s) == [i \in DOMAIN s |-> s[Len(s) + 1 - i]]
Prefix(s, n) == [i \in 1..n |-> s[i]]
IsPrefix(s, t) == Len(s) <= Len(t) /\ s = Prefix(t, Len(s))
Repeat(x, n) == [i \in 1..n |-> x]

\* The sequence a freshly constructed cursor stands for.
RECURSIVE Contents(_)
Contents(c) ==
    CASE c.type = "Once" -> <<c.element>>
      [] c.type \in {"VecPag", "VecPagMut"} -> c.items
      [] c.type = "Map" ->
            LET s == Contents(c.inner) IN [i \in DOMAIN s |-> F(c.f, s[i])]
      [] c.type = "Enumerate" ->
            LET s == Contents(c.inner) IN [i \in DOMAIN s |-> <<i - 1, s[i]>>]
      [] c.type = "Chain" -> Contents(c.inner_a) \o Contents(c.inner_b)

\* Every position a cursor stores, outermost first.
RECURSIVE Positions(_)
Positions(c) ==
    CASE c.type = "Once" -> <<c.position>>
      [] c.type \in {"VecPag", "VecPagMut"} -> <<c.index>>
      [] c.type = "Map" -> Positions(c.inner)
      [] c.type = "Enumerate" -> <<c.index>> \o Positions(c.inner)
      [] c.type = "Chain" -> Positions(c.inner_a) \o Positions(c.inner_b)

\* What a full pass forward and then a full pass backward over s returns.
RoundTrip(s) ==
    [i \in DOMAIN s |-> Some(s[i])] \o <<None>>
        \o [i \in DOMAIN s |-> Some(s[Len(s) + 1 - i])] \o <<None>>
RoundTripOps(s) ==
    Repeat("next", Len(s) + 1) \o Repeat("previous", Len(s) + 1)

\* ------------------------------------------------------------------ C1
\* C1: a VecPag from paginate() over a Vec of length N, called next until
\* None and then previous until None, returns the N elements in order, None
\* at call N+1, then the N elements in reverse order, None at call N+1.
C1_RoundTripSymmetry ==
    fresh.type = "VecPag" =>
        /\ IsPrefix(Rets(hist), RoundTrip(fresh.items))
        /\ IsPrefix(Ops(hist), RoundTripOps(fresh.items))
        /\ phase = "done" => Rets(hist) = RoundTrip(fresh.items)

C1_Witness ==
    /\ fresh.type = "VecPag"
    /\ phase = "done"
    /\ Len(fresh.items) = MaxTripLen
    /\ fresh.items[1] # fresh.items[2]
    /\ Len(hist) = 2 * MaxTripLen + 2

\* ------------------------------------------------------------------ C3
\* C3: a Chain over fresh collection cursors on A and B returns A's elements
\* in order, then B's, then None; then B's in reverse, A's in reverse, None.
IsVecChain(c) ==
    /\ c.type = "Chain"
    /\ c.inner_a.type \in {"VecPag", "VecPagMut"}
    /\ c.inner_b.type \in {"VecPag", "VecPagMut"}

C3_ConcatenationOrdering ==
    IsVecChain(fresh) =>
        LET A == fresh.inner_a.items
            B == fresh.inner_b.items
        IN  /\ IsPrefix(Rets(hist), RoundTrip(A \o B))
            /\ IsPrefix(Ops(hist), RoundTripOps(A \o B))
            /\ phase = "done" => Rets(hist) = RoundTrip(A \o B)

C3_Witness ==
    /\ IsVecChain(fresh)
    /\ phase = "done"
    /\ Len(fresh.inner_a.items) = MaxChainLen
    /\ Len(fresh.inner_b.items) = MaxChainLen
    /\ fresh.inner_a.items # fresh.inner_b.items
    /\ Len(hist) = 4 * MaxChainLen + 2

\* ------------------------------------------------------------------ C4
\* C4: an Enumerate created over a fresh cursor and driven only by next
\* yields at its k-th successful next (from 0) the pair (k, element), and
\* its counter is k+1 afterwards.
OnlyNext(h, i) == \A j \in 1..i : h[j].op = "next"
SuccessesBefore(h, i) == Cardinality({j \in 1..(i - 1) : h[j].ret.some})

C4_IndexTagOnAdvance ==
    fresh.type = "Enumerate" =>
        \A i \in DOMAIN hist :
            (OnlyNext(hist, i) /\ hist[i].ret.some) =>
                LET k == SuccessesBefore(hist, i)
                IN  /\ hist[i].ret.val = <<k, Contents(fresh.inner)[k + 1]>>
                    /\ hist[i].before.index = k
                    /\ hist[i].after.index = k + 1

C4_Witness ==
    /\ fresh.type = "Enumerate"
    /\ Len(hist) = 3
    /\ OnlyNext(hist, 3)
    /\ hist[3].ret.some
    /\ hist[3].ret.val[1] = 2

\* ------------------------------------------------------------------ C5
\* C5: every successful previous of Enumerate decrements the counter and
\* yields the decremented value, so a full backward pass returns the pairs
\* of the forward pass in reverse order.
C5_IndexTagOnRetreat ==
    fresh.type = "Enumerate" =>
        /\ \A i \in DOMAIN hist :
              (hist[i].op = "previous" /\ hist[i].ret.some) =>
                  /\ hist[i].after.index = hist[i].before.index - 1
                  /\ hist[i].ret.val[1] = hist[i].after.index
        /\ phase = "done" => Rets(hist) = RoundTrip(Contents(fresh))

\* ------------------------------------------------------------------ C2
\* Two cursors that return the same results on every sequence of at most d
\* calls.
RECURSIVE ObsEq(_, _, _)
ObsEq(c1, c2, d) ==
    \/ d = 0
    \/ LET n1 == Paginator_next(c1)
           n2 == Paginator_next(c2)
           p1 == Paginator_previous(c1)
           p2 == Paginator_previous(c2)
       IN  /\ n1.ret = n2.ret
           /\ p1.ret = p2.ret
           /\ ObsEq(n1.cur, n2.cur, d - 1)
           /\ ObsEq(p1.cur, p2.cur, d - 1)

OnlySuccessfulNext(h) ==
    /\ h # <<>>
    /\ \A i \in DOMAIN h : h[i].op = "next" /\ h[i].ret.some

\* C2: for every provided cursor, after one or more successful next calls
\* and nothing else, previous returns the item the last next returned and
\* leaves the cursor as it was before that next.
C2_SymmetryLaw ==
    OnlySuccessfulNext(hist) =>
        LET r == Paginator_previous(cur)
        IN  /\ r.ret = Last(hist).ret
            /\ ObsEq(r.cur, Last(hist).before, ObsDepth)

\* ------------------------------------------------------------------ C6
\* The results of making the calls ops, in order, on cursor c.
RECURSIVE Run(_, _)
Run(c, ops) ==
    IF ops = <<>> THEN <<>>
    ELSE LET r == IF Head(ops) = "next" THEN Paginator_next(c)
                  ELSE Paginator_previous(c)
         IN  <<r>> \o Run(r.cur, Tail(ops))

\* C6: once(x) returns on every sequence of calls what a fresh VecPag over
\* the one-element Vec [x] returns, with Once.position equal to its index;
\* previous, next, next, previous, previous return None, x, None, x, None.
C6_OnceIsLengthOneVecPag ==
    fresh.type = "Once" =>
        LET twin == Run(paginate(<<fresh.element>>), Ops(hist))
        IN  /\ \A i \in DOMAIN hist :
                  /\ hist[i].ret = twin[i].ret
                  /\ hist[i].after.position = twin[i].cur.index
            /\ Ops(hist) = <<"previous", "next", "next", "previous", "previous">> =>
                  Rets(hist) = <<None, Some(fresh.element), None,
                                 Some(fresh.element), None>>

C6_Witness ==
    /\ fresh.type = "Once"
    /\ Ops(hist) = <<"previous", "next", "next", "previous", "previous">>
    /\ hist[4].ret = Some(fresh.element)

\* ------------------------------------------------------------------ C7
\* Among the first i calls, a next returned None and no previous has
\* returned Some since (and the same with the directions exchanged).
EndedForward(h, i) ==
    \E k \in 1..i :
        /\ h[k].op = "next" /\ ~h[k].ret.some
        /\ \A m \in (k + 1)..i : ~(h[m].op = "previous" /\ h[m].ret.some)
EndedBackward(h, i) ==
    \E k \in 1..i :
        /\ h[k].op = "previous" /\ ~h[k].ret.some
        /\ \A m \in (k + 1)..i : ~(h[m].op = "next" /\ h[m].ret.some)

\* C7: once next has returned None, every further next returns None and
\* leaves every stored position unchanged, until a previous returns Some;
\* and the same for previous, until a next returns Some.
C7_IdempotentEnd ==
    \A j \in DOMAIN hist :
        /\ (hist[j].op = "next" /\ EndedForward(hist, j - 1)) =>
              /\ ~hist[j].ret.some
              /\ Positions(hist[j].after) = Positions(hist[j].before)
        /\ (hist[j].op = "previous" /\ EndedBackward(hist, j - 1)) =>
              /\ ~hist[j].ret.some
              /\ Positions(hist[j].after) = Positions(hist[j].before)

C7_Witness ==
    /\ fresh.type = "Chain"
    /\ Contents(fresh) # <<>>
    /\ \E j \in DOMAIN hist : hist[j].op = "next" /\ EndedForward(hist, j - 1)
    /\ \E j \in DOMAIN hist : hist[j].op = "previous" /\ EndedBackward(hist, j - 1)

\* ------------------------------------------------------------------ C8
AllZero(s) == \A i \in DOMAIN s : s[i] = 0

\* C8: a cursor from paginate(), paginate_mut() or once(), and an adapter
\* built over such cursors, is at position 0: previous before any next
\* returns None, and the first next returns element 0 (None if empty).
C8_FreshStartsAtBeginning ==
    /\ hist = <<>> => AllZero(Positions(cur))
    /\ (Len(hist) = 1 /\ hist[1].op = "previous") => hist[1].ret = None
    /\ (Len(hist) = 1 /\ hist[1].op = "next") =>
          hist[1].ret = IF Contents(fresh) = <<>> THEN None
                        ELSE Some(Contents(fresh)[1])

C8_Witness ==
    /\ Len(hist) = 1
    /\ hist[1].op = "previous"
    /\ fresh.type = "Chain"
    /\ Len(Contents(fresh.inner_a)) = MaxLen
    /\ hist[1].ret = None

\* ------------------------------------------------------------------ C9
ConstructorOps == {"once", "paginate", "paginate_mut", "map", "enumerate", "chain"}
Invokes(e, what) == \E i \in DOMAIN e.calls : e.calls[i].op = what

\* C9: constructing a cursor or an adapter makes no call on a wrapped
\* cursor or on the Map function and leaves every wrapped cursor (its
\* position and its collection) as it was; the Map function runs only
\* inside next and previous.
C9_Laziness ==
    [][LET e == Last(hist')
       IN  /\ e.op \in ConstructorOps =>
                /\ e.calls = <<>>
                /\ e.op \in {"once", "paginate", "paginate_mut"} =>
                      AllZero(Positions(cur'))
                /\ e.op \in {"map", "enumerate"} => cur'.inner = cur
                /\ e.op = "chain" =>
                      /\ cur'.inner_a = cur
                      /\ cur'.inner_b \in Sources
           /\ Invokes(e, "f") => IsCall(e)]_vars

C9_Witness ==
    /\ hist # <<>>
    /\ Last(hist).op = "map"
    /\ cur.inner.type = "VecPag"
    /\ cur.inner.index = 1
    /\ Len(cur.inner.items) = MaxLen
    /\ \A i \in DOMAIN hist : ~Invokes(hist[i], "f")

\* ----------------------------------------------------------------- C10
\* The position of the collection a call of a collection cursor lands on.
LandsOn(e) == IF e.op = "next" THEN e.before.index ELSE e.before.index - 1

\* The position the reference written through at hist[j] was yielded for.
WrittenAt(h, j) ==
    LandsOn(h[CHOOSE k \in 1..j : IsCall(h[k]) /\ \A m \in (k + 1)..j : ~IsCall(h[m])])

\* The value at position i before hist[j]: the last one written there, or
\* the one the collection was constructed with.
ValueAt(h, i, j) ==
    LET W == {k \in 1..(j - 1) : h[k].op = "write" /\ WrittenAt(h, k) = i}
    IN  IF W = {} THEN fresh.items[i + 1]
        ELSE h[CHOOSE k \in W : \A m \in W : m <= k].ret.val

\* C10: what a VecPagMut yields at position i is the value last written
\* through a reference it yielded for position i, and the original element
\* where none was written: a write is seen by every later next or previous
\* landing there and changes no other position.
C10_WriteVisibility ==
    fresh.type = "VecPagMut" =>
        \A j \in DOMAIN hist :
            (IsCall(hist[j]) /\ hist[j].ret.some) =>
                hist[j].ret.val = ValueAt(hist, LandsOn(hist[j]), j)

C10_Witness ==
    /\ fresh.type = "VecPagMut"
    /\ Len(fresh.items) = MaxMutLen
    /\ Len(hist) = 5
    /\ Ops(hist) = <<"next", "next", "write", "previous", "next">>
    /\ hist[3].ret.val # fresh.items[2]
    /\ hist[4].ret = hist[3].ret
    /\ hist[5].ret = hist[3].ret
    /\ cur.items[1] = fresh.items[1]

\* ----------------------------------------------------------------- C11
IsVec(c) == c.type \in {"VecPag", "VecPagMut"}

\* C11: at index i over a collection of length n, next returns element i
\* and sets the index to i+1 when i < n, and otherwise returns None and
\* leaves the index; previous returns element i-1 and sets the index to
\* i-1 when i > 0, and otherwise returns None and leaves the index at 0.
C11_PositionStepRules ==
    IsVec(fresh) =>
        \A j \in DOMAIN hist :
            LET e == hist[j]
                i == e.before.index
                n == Len(e.before.items)
            IN  /\ (e.op = "next" /\ i < n) =>
                      e.ret = Some(e.before.items[i + 1]) /\ e.after.index = i + 1
                /\ (e.op = "next" /\ ~(i < n)) =>
                      e.ret = None /\ e.after.index = i
                /\ (e.op = "previous" /\ i > 0) =>
                      e.ret = Some(e.before.items[i]) /\ e.after.index = i - 1
                /\ (e.op = "previous" /\ ~(i > 0)) =>
                      e.ret = None /\ e.after.index = 0
                /\ e.after.items = e.before.items

C11_Witness ==
    /\ fresh.type = "VecPagMut"
    /\ Len(fresh.items) = MaxTripLen
    /\ fresh.items[1] # fresh.items[2]
    /\ Len(hist) >= MaxTripLen + 3
    /\ hist[1].op = "previous" /\ hist[1].ret = None
    /\ \A j \in 2..(MaxTripLen + 1) : hist[j].op = "next" /\ hist[j].ret.some
    /\ hist[MaxTripLen + 2].op = "next" /\ hist[MaxTripLen + 2].ret = None
    /\ hist[MaxTripLen + 3].op = "previous" /\ hist[MaxTripLen + 3].ret.some

\* ----------------------------------------------------------------- C12
\* C12: a collection cursor created at index 0 over a collection of length
\* n keeps 0 <= index <= n; every element it yields is read at a position
\* in [0, n); a call returns an element or None and never panics.
C12_PositionBounds ==
    IsVec(fresh) =>
        /\ cur.index >= 0 /\ cur.index <= Len(cur.items)
        /\ ~panicked
        /\ \A j \in DOMAIN hist :
              LET e == hist[j]
                  n == Len(e.before.items)
              IN  /\ e.after.index >= 0 /\ e.after.index <= n
                  /\ e.ret.some =>
                        /\ LandsOn(e) >= 0 /\ LandsOn(e) < n
                        /\ e.ret.val = e.before.items[LandsOn(e) + 1]

C12_Witness ==
    /\ fresh.type = "VecPag"
    /\ Len(fresh.items) = MaxTripLen
    /\ cur.index = MaxTripLen
    /\ Len(hist) = MaxTripLen + 2
    /\ hist[1].ret = None /\ hist[1].op = "previous"
    /\ Last(hist).ret = None /\ Last(hist).op = "next"

\* ----------------------------------------------------------------- C13
IsSource(c) == c.type \in {"Once", "VecPag", "VecPagMut"}
IsSourceChain(c) ==
    c.type = "Chain" /\ IsSource(c.inner_a) /\ IsSource(c.inner_b)
PositionOf(c) == IF c.type = "Once" THEN c.position ELSE c.index

\* Calls of next that returned Some minus calls of previous that did.
Net(h) ==
    Cardinality({i \in DOMAIN h : h[i].op = "next" /\ h[i].ret.some})
        - Cardinality({i \in DOMAIN h : h[i].op = "previous" /\ h[i].ret.some})

\* C13: the position of a Once, VecPag or VecPagMut created at 0 is the
\* number of its next calls that returned Some minus the number of its
\* previous calls that returned Some; for a Chain over two such cursors the
\* two wrapped positions add up to that difference of the Chain's calls.
C13_PositionIsNetAdvance ==
    /\ IsSource(fresh) => PositionOf(cur) = Net(hist)
    /\ IsSourceChain(fresh) =>
          PositionOf(cur.inner_a) + PositionOf(cur.inner_b) = Net(hist)

C13_Witness ==
    /\ IsSourceChain(fresh)
    /\ Len(Contents(fresh.inner_a)) = MaxChainLen
    /\ Len(Contents(fresh.inner_b)) = MaxChainLen
    /\ Len(hist) = 2 * MaxChainLen + 1
    /\ Last(hist).op = "previous"
    /\ Net(hist) = 2 * MaxChainLen - 1
    /\ PositionOf(cur.inner_b) = MaxChainLen - 1

\* ----------------------------------------------------------------- C14
\* The calls made on the k-th cursor, in order.
CallsOn(h, k) == SelectSeq(h, LAMBDA e : e.who = k)

\* C14: with several VecPags over one Vec, a call changes only the index of
\* the cursor it is made on: the Vec and every other cursor stay as they
\* were, and each cursor returns what it would return alone.
C14_IndependentReaders ==
    /\ \A j \in DOMAIN hist :
          LET e == hist[j]
          IN  /\ e.after.items = e.before.items
              /\ \A m \in DOMAIN e.before.pags :
                    /\ e.after.pags[m].items = e.before.pags[m].items
                    /\ e.after.pags[m].items = e.before.items
                    /\ m # e.who => e.after.pags[m] = e.before.pags[m]
    /\ \A k \in DOMAIN cur.pags :
          LET mine == CallsOn(hist, k)
              alone == Run(paginate(fresh.items), Ops(mine))
          IN  /\ \A i \in DOMAIN mine : mine[i].ret = alone[i].ret
              /\ mine # <<>> => cur.pags[k] = alone[Len(mine)].cur

C14_Witness ==
    /\ Len(fresh.items) = MaxMutLen
    /\ fresh.items[1] # fresh.items[2]
    /\ Len(hist) = 4
    /\ hist[1].who = 1 /\ hist[1].op = "next"
    /\ hist[2].who = 2 /\ hist[2].op = "next"
    /\ hist[3].who = 1 /\ hist[3].op = "next"
    /\ hist[4].who = 2 /\ hist[4].op = "previous"
    /\ cur.pags[1].index = 2
    /\ cur.pags[2].index = 0

\* ----------------------------------------------------------------- C16
Turned(e, from, to) == e.before.disjunctor = from /\ e.after.disjunctor = to

\* C16: the discriminator starts as First; it goes from First to Second
\* only in a Chain.next in which inner_a.next returned None, and from Second
\* to First only in a Chain.previous in which inner_b.previous returned
\* None; a next that starts in Second leaves it Second, a previous that
\* starts in First leaves it First.
C16_DiscriminatorTransitions ==
    IsSourceChain(fresh) =>
        /\ hist = <<>> => cur.disjunctor = "First"
        /\ \A j \in DOMAIN hist :
              LET e == hist[j]
              IN  /\ e.after.disjunctor \in {"First", "Second"}
                  /\ Turned(e, "First", "Second") =>
                        /\ e.op = "next"
                        /\ e.calls[1] = Call("Chain", "inner_a.next", None)
                  /\ Turned(e, "Second", "First") =>
                        /\ e.op = "previous"
                        /\ e.calls[1] = Call("Chain", "inner_b.previous", None)
                  /\ (e.op = "next" /\ e.before.disjunctor = "Second") =>
                        e.after.disjunctor = "Second"
                  /\ (e.op = "previous" /\ e.before.disjunctor = "First") =>
                        e.after.disjunctor = "First"

C16_Witness ==
    /\ IsSourceChain(fresh)
    /\ Contents(fresh.inner_a) # <<>>
    /\ \E j \in DOMAIN hist : Turned(hist[j], "First", "Second")
    /\ \E j \in DOMAIN hist : Turned(hist[j], "Second", "First")
    /\ \E j \in DOMAIN hist :
          hist[j].op = "next" /\ hist[j].before.disjunctor = "Second"
              /\ hist[j].ret = None
    /\ \E j \in DOMAIN hist :
          hist[j].op = "previous" /\ hist[j].before.disjunctor = "First"
              /\ hist[j].ret = None

\* ----------------------------------------------------------------- C17
\* C17: while the discriminator of a Chain over fresh source cursors is
\* First, inner_b is at its start; inner_b.next is called only in a
\* Chain.next that started in Second or in which inner_a.next returned None.
C17_FirstMeansBAtStart ==
    IsSourceChain(fresh) =>
        /\ cur.disjunctor = "First" => PositionOf(cur.inner_b) = 0
        /\ \A j \in DOMAIN hist :
              \A i \in DOMAIN hist[j].calls :
                  hist[j].calls[i].op = "inner_b.next" =>
                      /\ hist[j].op = "next"
                      /\ \/ hist[j].before.disjunctor = "Second"
                         \/ /\ i > 1
                            /\ hist[j].calls[1] = Call("Chain", "inner_a.next", None)

C17_Witness ==
    /\ IsSourceChain(fresh)
    /\ Contents(fresh.inner_b) # <<>>
    /\ Len(Contents(fresh.inner_b)) = MaxChainLen
    /\ hist # <<>>
    /\ cur.disjunctor = "First"
    /\ Last(hist).op = "previous"
    /\ \E j \in DOMAIN hist : PositionOf(hist[j].after.inner_b) = MaxChainLen

\* ----------------------------------------------------------------- C18
\* C18: while the discriminator of a Chain over fresh collection cursors is
\* Second, inner_a is at its end.
C18_SecondMeansAExhausted ==
    IsVecChain(fresh) =>
        (cur.disjunctor = "Second" =>
            cur.inner_a.index = Len(cur.inner_a.items))

C18_Witness ==
    /\ IsVecChain(fresh)
    /\ Len(fresh.inner_a.items) = MaxChainLen
    /\ cur.disjunctor = "Second"
    /\ cur.inner_b.index = 1
    /\ Last(hist).op = "previous"

\* ----------------------------------------------------------------- C19
\* C19: on every sequence of next and previous calls,
\* Chain(paginate(A), paginate(B)) returns call by call what one fresh
\* VecPag over A ++ B returns, and the two wrapped indexes add up to its
\* index.
C19_ChainIsConcatenation ==
    (IsVecChain(fresh) /\ fresh.inner_a.type = "VecPag") =>
        LET twin == Run(paginate(fresh.inner_a.items \o fresh.inner_b.items),
                        Ops(hist))
        IN  \A i \in DOMAIN hist :
                /\ hist[i].ret = twin[i].ret
                /\ hist[i].after.inner_a.index + hist[i].after.inner_b.index
                      = twin[i].cur.index

C19_Witness ==
    /\ IsVecChain(fresh)
    /\ fresh.inner_a.type = "VecPag"
    /\ Len(fresh.inner_a.items) = MaxChainLen
    /\ fresh.inner_b.items # <<>>
    /\ Len(hist) = MaxChainLen + 4
    /\ \A j \in 1..(MaxChainLen + 1) : hist[j].op = "next"
    /\ hist[MaxChainLen + 2].op = "previous"
    /\ hist[MaxChainLen + 3].op = "previous"
    /\ hist[MaxChainLen + 4].op = "next"
    /\ Last(hist).ret = Some(fresh.inner_a.items[MaxChainLen])

\* ----------------------------------------------------------------- C20
RECURSIVE Sum(_)
Sum(s) == IF s = <<>> THEN 0 ELSE Head(s) + Sum(Tail(s))

\* C20: the counter of an Enumerate created over a fresh cursor equals the
\* number of its next calls that returned Some minus the number of its
\* previous calls that returned Some, which is the position of the wrapped
\* cursor; it changes only in a call in which the wrapped cursor returned
\* Some.
C20_EnumerateCounter ==
    fresh.type = "Enumerate" =>
        /\ cur.index = Net(hist)
        /\ cur.index = Sum(Positions(cur.inner))
        /\ \A j \in DOMAIN hist :
              LET e == hist[j]
              IN  /\ e.calls[1].by = "Enumerate"
                  /\ e.calls[1].some = e.ret.some
                  /\ ~e.calls[1].some => e.after.index = e.before.index
                  /\ e.after.index # e.before.index => e.calls[1].some

C20_Witness ==
    /\ fresh.type = "Enumerate"
    /\ fresh.inner.type = "VecPag"
    /\ hist # <<>>
    /\ Last(hist).op = "previous"
    /\ cur.index = MaxTripLen - 2
    /\ \E j \in DOMAIN hist : hist[j].after.index = MaxTripLen
    /\ \E j \in DOMAIN hist :
          /\ hist[j].op = "next"
          /\ hist[j].ret = None
          /\ hist[j].before.index = MaxTripLen

\* ----------------------------------------------------------------- C21
\* How many of the calls in the log were made by `who` and are `what`.
Count(calls, who, what) ==
    Cardinality({i \in DOMAIN calls : calls[i].by = who /\ calls[i].op = what})

\* C21: each Map.next makes exactly one next call on the wrapped cursor and
\* each Map.previous exactly one previous call; when that call returns
\* Some(x) the result is Some(f(x)) and f is invoked exactly once, when it
\* returns None the result is None and f is not invoked; Map stores nothing
\* but the wrapped cursor and the function.
C21_MapDelegation ==
    fresh.type = "Map" =>
        /\ DOMAIN cur = {"type", "inner", "f"}
        /\ cur.f = fresh.f
        /\ \A j \in DOMAIN hist :
              LET e == hist[j]
                  r == IF e.op = "next" THEN Paginator_next(e.before.inner)
                       ELSE Paginator_previous(e.before.inner)
                  same == IF e.op = "next" THEN "inner.next" ELSE "inner.previous"
                  other == IF e.op = "next" THEN "inner.previous" ELSE "inner.next"
              IN  /\ Count(e.calls, "Map", same) = 1
                  /\ Count(e.calls, "Map", other) = 0
                  /\ e.after.inner = r.cur
                  /\ r.ret.some =>
                        /\ e.ret = Some(F(fresh.f, r.ret.val))
                        /\ Count(e.calls, "Map", "f") = 1
                  /\ ~r.ret.some =>
                        /\ e.ret = None
                        /\ Count(e.calls, "Map", "f") = 0

C21_Witness ==
    /\ fresh.type = "Map"
    /\ fresh.f = "tag"
    /\ fresh.inner.type = "VecPag"
    /\ Len(fresh.inner.items) >= 2
    /\ \E j \in DOMAIN hist : hist[j].op = "next" /\ hist[j].ret.some
    /\ \E j \in DOMAIN hist : hist[j].op = "next" /\ ~hist[j].ret.some
    /\ \E j \in DOMAIN hist : hist[j].op = "previous" /\ hist[j].ret.some
    /\ \E j \in DOMAIN hist : hist[j].op = "previous" /\ ~hist[j].ret.some

\* ----------------------------------------------------------------- C22
\* The first k results are Some and the one after them is None.
SomeThenNone(run, k) ==
    /\ Len(run) = k + 1
    /\ \A m \in 1..k : run[m].ret.some
    /\ ~run[k + 1].ret.some

ReachesNone(run) == \E m \in DOMAIN run : ~run[m].ret.some

\* C22: from every reachable state of a VecPag or VecPagMut over n
\* elements, at index i, repeated next returns Some exactly n - i times and
\* then None, and repeated previous returns Some exactly i times and then
\* None; from every reachable state of a Chain over two of them, repeated
\* next, and repeated previous, returns None after at most
\* len(A) + len(B) calls that returned Some.
C22_ExhaustionReached ==
    /\ IsVec(fresh) =>
          LET n == Len(cur.items)
              i == cur.index
          IN  /\ i \in 0..n
              /\ SomeThenNone(Run(cur, Repeat("next", n - i + 1)), n - i)
              /\ SomeThenNone(Run(cur, Repeat("previous", i + 1)), i)
    /\ IsVecChain(fresh) =>
          LET m == Len(cur.inner_a.items) + Len(cur.inner_b.items)
          IN  /\ ReachesNone(Run(cur, Repeat("next", m + 1)))
              /\ ReachesNone(Run(cur, Repeat("previous", m + 1)))

C22_Witness ==
    /\ IsVecChain(fresh)
    /\ Len(fresh.inner_a.items) = MaxChainLen
    /\ Len(fresh.inner_b.items) = MaxChainLen
    /\ Len(hist) = 2 * MaxChainLen + 1
    /\ \A j \in 1..(2 * MaxChainLen) : hist[j].op = "next" /\ hist[j].ret.some
    /\ Last(hist).op = "next"
    /\ Last(hist).ret = None

\* ----------------------------------------------------------------- C23
\* C23: an Enumerate created by enumerate() over any cursor, one that was
\* moved before it was wrapped included, never subtracts from its counter
\* while the counter is 0: no call panics, the counter never wraps below 0,
\* and every previous that returned Some started with a counter above 0.
C23_NoCounterUnderflow ==
    fresh.type = "Enumerate" =>
        /\ ~panicked
        /\ cur.index >= 0
        /\ \A j \in DOMAIN hist :
              (hist[j].op = "previous" /\ hist[j].ret.some) =>
                  hist[j].before.index > 0
====
